---- MODULE Spec2Model ----
(***************************************************************************)
(* Discrete lattice gauge theory (saforem2/lattice_gauge_theory):          *)
(* the finite-group algebra (groups.py), the plaquette lookups and the     *)
(* Metropolis rule (utils.py) and the gauge field with its link updates    *)
(* and sweeps (field.py).                                                  *)
(***************************************************************************)
EXTENDS Integers, Sequences, FiniteSets, TLC

VARIABLES
    shape,   \* Field.shape: the lattice extents, a sequence L_1..L_D
    lattice, \* Field.lattice: the tables the lattice precomputes from the shape
    group,   \* Field.group: the IntGroup record (table, N, id, inv, Cl)
    B,       \* Field.B: the inverse temperature, an extended real
    links,   \* Field.lattice.links: link identity -> stored integer
    pc,      \* position of the running sweep: 0 when none runs, else the rank
             \* of the next link (-1 once an update of the sweep has raised);
             \* -2 while sweep(num_sweeps # 1) runs, whose position is in res;
             \* -3 while stats, phase_sweep or hysteresis runs, likewise
    calls,   \* "any": calls are taken without limit; "one": a single call
             \* is taken, after which calls is "spent"
    drawn,   \* candidates drawn so far by the running (or last) sweep, in visiting order
    last,    \* what the last operation did (kind, link, candidate, verdict, ...)
    arg,     \* input of the pure function under study
    res      \* what the pure function returned for arg

vars == <<shape, lattice, group, B, links, pc, calls, drawn, last, arg, res>>

(***************************************************************************)
(* Bounds of the model.                                                    *)
(***************************************************************************)
MaxTableN == 3    \* group tables of the construction study have 1..MaxTableN rows
MaxBadN == 2      \* tables up to this size also carry entries outside 0..N-1
MaxAction == 3    \* finite actions of the Metropolis study are 0..MaxAction
MaxBeta == 2      \* finite betas are n * ln 2 for n up to MaxBeta
RandDen == 2      \* random draws in [0, 1) are the multiples of 1 / RandDen
MaxLinks == 4     \* the field machine lives on the lattices with at most MaxLinks links
MaxConfigs == 16  \* and carries the groups with at most MaxConfigs link configurations
MaxCallLinks == 8      \* single calls are studied on lattices up to MaxCallLinks links
MaxCallConfigs == 256  \* and groups up to MaxCallConfigs link configurations
MaxIdLinks == 24       \* all-identity fields live on lattices up to MaxIdLinks links
MaxGroupN == 3    \* among Z_2..Z_MaxGroupN and the Klein group
MaxFieldBeta == 1 \* B of a field is n * ln 2 for n up to MaxFieldBeta
MaxRandUpdates == 1  \* rand_update(n) is called with n up to MaxRandUpdates
MaxSweeps == 2       \* sweep(num_sweeps) is called with num_sweeps up to MaxSweeps
MaxSamples == 2      \* stats(n, relax) is called with n up to MaxSamples
MaxRelax == 2        \* and relax up to MaxRelax
MaxBetas == 2        \* phase_sweep and hysteresis are given up to MaxBetas betas
MaxInc == 2          \* with inc from 1 to MaxInc
MaxEq == 2           \* hysteresis is called with neq up to MaxEq,
MaxHystStat == 1     \* nstat from 1 to MaxHystStat,
MaxHystRelax == 1    \* relax from 1 to MaxHystRelax
MaxHystBetas == 1    \* betas an array of up to MaxHystBetas entries,
MaxTupleBeta == 2    \* or a tuple with betas[0], betas[1] up to MaxTupleBeta
MaxStop == 1         \* watch_sweep is called with stop from -1 to MaxStop
BigBeta == 1100      \* a finite B large enough for np.exp(-B * delta_S) to underflow
MaxPhaseSweeps == 2  \* phase_sweep is called with num_sweeps up to MaxPhaseSweeps
MaxDims == 3      \* lattices of the lookup study have 2..MaxDims dimensions
MaxExtent == 3    \* and extents 1..MaxExtent along every axis

None == "None"    \* Python's None

NoGroup == [err |-> "unbuilt"]

Pending == [err |-> "pending"]    \* the function under study has not been called yet

FieldIdle ==
    /\ shape = <<>> /\ lattice = [num_links |-> 0]
    /\ group = NoGroup /\ B = None /\ links = <<>>
    /\ pc = 0 /\ calls = "spent" /\ drawn = <<>> /\ last = [op |-> "none"]

FieldVars == <<shape, lattice, group, B, links, pc, calls, drawn, last>>

RECURSIVE Pow(_, _)
Pow(b, e) == IF e <= 0 THEN 1 ELSE b * Pow(b, e - 1)

Min(S) == CHOOSE x \in S : \A y \in S : x <= y
Max(S) == CHOOSE x \in S : \A y \in S : x >= y

(***************************************************************************)
(* numpy integer indexing into an axis of length n: an index is accepted   *)
(* when -n <= x < n, a negative one counting from the end; anything else   *)
(* raises IndexError.                                                      *)
(***************************************************************************)
InBounds(x, n) == (0 - n) <= x /\ x <= n - 1
At(x, n) == IF x < 0 THEN x + n ELSE x

(***************************************************************************)
(* Group algebra: groups.py.  A table is a function 0..N-1 -> 0..N-1 ->    *)
(* Int, the N x N integer array handed to IntGroup.                        *)
(***************************************************************************)
TableSize(table) == Cardinality(DOMAIN table)

TableEntries(table) == {table[i][j] : i \in DOMAIN table, j \in DOMAIN table}

\* groups.py:58  the guard of "check table vals": the constructor goes on
\* when amax(table) == N-1 or amin(table) == 0
ValsAccepted(table) ==
    \/ Max(TableEntries(table)) = TableSize(table) - 1
    \/ Min(TableEntries(table)) = 0

\* np.where(row == v)[0]
Where(row, v) == {j \in DOMAIN row : row[j] = v}

\* groups.py:86-88  one pass of the inverse loop for element i: which error
\* it raises, "none" when inv[i] is stored and the check passes
InvRowError(table, id, i) ==
    LET N == TableSize(table)
        hits == Where(table[i], id)
    IN  IF hits = {} THEN "IndexError"
        ELSE LET j == Min(hits)
             IN  IF \E x \in 0..(N-1) : ~InBounds(table[i][x], N)
                     THEN "IndexError"
                 ELSE IF \E x \in 0..(N-1) : table[j][At(table[i][x], N)] # x
                     THEN "ValueError"
                 ELSE "none"

\* IntGroup.__call__: the left-to-right product of a sequence of elements,
\* each lookup a numpy index into the table
RECURSIVE GroupCallFrom(_, _, _, _, _)
GroupCallFrom(table, N, b, a, k) ==
    IF k > Len(a) THEN b
    ELSE GroupCallFrom(table, N, table[At(b, N)][At(a[k], N)], a, k + 1)

GroupCall(table, N, a) == GroupCallFrom(table, N, a[1], a, 2)

\* groups.py:90-92  Cl[j] = {self(i, j, inv[i]) for i in range(N)}
ConjClasses(table, inv) ==
    [j \in DOMAIN table |-> {GroupCall(table, TableSize(table), <<i, j, inv[i]>>) : i \in DOMAIN table}]

\* IntGroup.__init__: the constructed object, or the error raised and where
IntGroupInit(table) ==
    LET N == TableSize(table)
        failed(kind, where) ==
            [err |-> kind, at |-> where, table |-> table, N |-> N,
             id |-> 0, inv |-> <<>>, Cl |-> <<>>]
    IN  IF ~ValsAccepted(table) THEN failed("ValueError", "values")
        ELSE IF Where(table[0], 0) = {} THEN failed("IndexError", "id")
        ELSE LET id == Min(Where(table[0], 0))
                 bad == {i \in 0..(N-1) : InvRowError(table, id, i) # "none"}
             IN  IF bad # {}
                     THEN failed(InvRowError(table, id, Min(bad)), "inv")
                 ELSE LET inv == [i \in 0..(N-1) |-> Min(Where(table[i], id))]
                      IN  [err |-> "none", at |-> "done", table |-> table,
                           N |-> N, id |-> id, inv |-> inv,
                           Cl |-> ConjClasses(table, inv)]

\* groups.py:5-19  ZN(N): table[i][j] = (i + j) mod N
ZNTable(N) == [i \in 0..(N-1) |-> [j \in 0..(N-1) |-> (i + j) % N]]

ZN(N) == IntGroupInit(ZNTable(N))

\* groups.py:108-110  the Klein four-group
TKlein ==
    [i \in 0..3 |-> [j \in 0..3 |->
        <<<<0,1,2,3>>, <<1,0,3,2>>, <<2,3,0,1>>, <<3,2,1,0>>>>[i + 1][j + 1]]]

Klein == IntGroupInit(TKlein)

DeltaAction_inverted(G, a) == IF a = G.id THEN 1 ELSE 0

\* the delta action of ZN(N, 'delta'), KDaction, QDaction: float(a != G.id)
DeltaAction(G, a) == IF a # G.id THEN 1 ELSE 0

(***************************************************************************)
(* Plaquette lookups: utils.py.  A site is the tuple of its coordinates, a *)
(* link the tuple site + (direction,), directions counted from 0.          *)
(***************************************************************************)
NumDims(sh) == Len(sh)

Dirs(sh) == 0..(Len(sh) - 1)

\* utils.py:38-71  increment_array: arr2[i[0]] += i[1] for each pair in turn,
\* the index a numpy index (-1 is the last entry)
RECURSIVE IncrementFrom(_, _, _)
IncrementFrom(arr2, increments, k) ==
    IF k > Len(increments) THEN arr2
    ELSE LET pos == At(increments[k][1], Len(arr2)) + 1
         IN  IncrementFrom([arr2 EXCEPT ![pos] = @ + increments[k][2]],
                           increments, k + 1)

increment_array(arr, increments) == IncrementFrom(arr, increments, 1)

\* utils.py:73-91  (no branch for d1 == d2: the function falls off its end
\* and returns None)
site_plaq_links(site, d1, d2) ==
    IF d1 < d2 THEN
        << site \o <<d1>>,
           increment_array(site, << <<d1, 1>> >>) \o <<d2>>,
           increment_array(site, << <<d2, 1>> >>) \o <<d1>>,
           site \o <<d2>> >>
    ELSE IF d1 > d2 THEN
        << site \o <<d2>>,
           increment_array(site, << <<d2, 1>> >>) \o <<d1>>,
           increment_array(site, << <<d1, 1>> >>) \o <<d2>>,
           site \o <<d1>> >>
    ELSE <<>>

link_plaq_links_ignores_sign(link, direction, sign) ==
    LET dl == link[Len(link)]
        turn == <<0 - 1, direction - dl>>
    IN  IF direction > dl THEN
            << link,
               increment_array(link, << <<dl, 1>>, turn >>),
               increment_array(link, << <<direction, 1>> >>),
               increment_array(link, << turn >>) >>
        ELSE IF direction < dl THEN
            << increment_array(link, << turn >>),
               increment_array(link, << <<direction, 1>> >>),
               increment_array(link, << <<dl, 1>>, turn >>),
               link >>
        ELSE <<>>

\* utils.py:138-139  the else branch of the sign test
link_plaq_links_raises(sign) == sign # 1 /\ sign # (0 - 1)

\* utils.py:93-139  for sign in {1, -1} (direction equal to the link's own
\* direction matches no branch and the function returns None)
link_plaq_links(link, direction, sign) ==
    LET dl == link[Len(link)]
        turn == <<0 - 1, direction - dl>>
    IN  IF sign = 1 THEN
            IF direction > dl THEN
                << link,
                   increment_array(link, << <<dl, 1>>, turn >>),
                   increment_array(link, << <<direction, 1>> >>),
                   increment_array(link, << turn >>) >>
            ELSE IF direction < dl THEN
                << increment_array(link, << turn >>),
                   increment_array(link, << <<direction, 1>> >>),
                   increment_array(link, << <<dl, 1>>, turn >>),
                   link >>
            ELSE <<>>
        ELSE
            IF direction > dl THEN
                << increment_array(link, << <<direction, 0 - 1>> >>),
                   increment_array(link, << <<direction, 0 - 1>>, <<dl, 1>>, turn >>),
                   link,
                   increment_array(link, << <<direction, 0 - 1>>, turn >>) >>
            ELSE IF direction < dl THEN
                << increment_array(link, << <<direction, 0 - 1>>, turn >>),
                   link,
                   increment_array(link, << <<direction, 0 - 1>>, <<dl, 1>>, turn >>),
                   increment_array(link, << <<direction, 0 - 1>> >>) >>
            ELSE <<>>

(***************************************************************************)
(* Lattice topology.  The periodic lattice class that Field builds         *)
(* (links, p_links, p_sites, num_sites, num_dims) is not among the         *)
(* sources; it follows the design document: coordinates wrap modulo the    *)
(* extent of their axis and the plaquette tables are precomputed from the  *)
(* lookups above.                                                          *)
(***************************************************************************)
\* wrap(coord, axis): coord mod shape[axis]
wrap(sh, coord, axis) == coord % sh[axis + 1]

\* a link identity with every site coordinate wrapped
WrapLink(sh, link) ==
    [k \in 1..Len(link) |->
        IF k <= Len(sh) THEN wrap(sh, link[k], k - 1) ELSE link[k]]

WrapLinks(sh, ls) == [k \in 1..Len(ls) |-> WrapLink(sh, ls[k])]

SitesOf(sh) == {s \in [1..Len(sh) -> 0..(Max({sh[k] : k \in 1..Len(sh)}) - 1)] :
                    \A k \in 1..Len(sh) : s[k] < sh[k]}

LinksOf(sh) == {s \o <<d>> : s \in SitesOf(sh), d \in Dirs(sh)}

num_sites(sh) == Cardinality(SitesOf(sh))

\* the sign of slot s of the last axis of p_links
SignOf(s) == IF s = 0 THEN 1 ELSE 0 - 1

\* lattice.p_links[l + (d, s)]
p_links(sh, l, d, s) == WrapLinks(sh, link_plaq_links(l, d, SignOf(s)))

\* lattice.p_sites[i + (d1, d2)]
p_sites(sh, i, d1, d2) == WrapLinks(sh, site_plaq_links(i, d1, d2))

\* field.py:226-230  the (d, s) pairs link_action visits, in loop order
RECURSIVE LinkActionLoop(_, _, _)
LinkActionLoop(sh, dl, d) ==
    IF d >= NumDims(sh) THEN <<>>
    ELSE (IF d = dl THEN <<>> ELSE << <<d, 0>>, <<d, 1>> >>)
         \o LinkActionLoop(sh, dl, d + 1)

\* field.py:226-236  the plaquettes whose action link_action(l) adds up:
\* ls = lattice.p_links[l + (d, s)] for each visited (d, s)
LinkActionTerms(sh, l) ==
    LET loop == LinkActionLoop(sh, l[Len(l)], 0)
    IN  [k \in 1..Len(loop) |->
            [d |-> loop[k][1], s |-> loop[k][2],
             ls |-> p_links(sh, l, loop[k][1], loop[k][2])]]

NumLinks(sh) == num_sites(sh) * NumDims(sh)


\* field.py:56-109  Field.site_plaquette: past the iterable test, line 79
\* reads the name v, which nothing defines: every call raises NameError
SitePlaquette(sh, s, d1, d2) == [err |-> "NameError", ls |-> <<>>]

(***************************************************************************)
(* Study of the plaquette lookups: a query is drawn and answered.          *)
(***************************************************************************)
PlaqShapes == UNION {[1..D -> 1..MaxExtent] : D \in 2..MaxDims}

\* the queries on the lattices of the given shapes
PlaqQueriesOn(shapes) ==
    UNION {
        {[fn |-> f, shape |-> sh, pt |-> p, a |-> d1, b |-> d2] :
            f \in {"site_plaq_links", "site_plaquette"},
            p \in SitesOf(sh), d1 \in Dirs(sh), d2 \in Dirs(sh)}
        \cup
        {[fn |-> "link_plaq_links", shape |-> sh, pt |-> p, a |-> d, b |-> sg] :
            p \in LinksOf(sh), d \in Dirs(sh), sg \in {1, 0 - 1}}
        \cup
        {[fn |-> "link_action", shape |-> sh, pt |-> p, a |-> 0, b |-> 0] :
            p \in LinksOf(sh)}
        : sh \in shapes}

InitPlaq ==
    /\ FieldIdle
    /\ arg \in PlaqQueriesOn(PlaqShapes)
    /\ res = Pending

SitePlaqLinksCall ==
    /\ res = Pending /\ arg.fn = "site_plaq_links"
    /\ res' = [err |-> "none", ls |-> site_plaq_links(arg.pt, arg.a, arg.b)]
    /\ UNCHANGED <<arg, FieldVars>>

LinkPlaqLinksCall ==
    /\ res = Pending /\ arg.fn = "link_plaq_links"
    /\ res' = IF link_plaq_links_raises(arg.b)
                  THEN [err |-> "ValueError", ls |-> <<>>]
                  ELSE [err |-> "none", ls |-> link_plaq_links(arg.pt, arg.a, arg.b)]
    /\ UNCHANGED <<arg, FieldVars>>

SitePlaquetteCall ==
    /\ res = Pending /\ arg.fn = "site_plaquette"
    /\ res' = SitePlaquette(arg.shape, arg.pt, arg.a, arg.b)
    /\ UNCHANGED <<arg, FieldVars>>

LinkActionTermsCall ==
    /\ res = Pending /\ arg.fn = "link_action"
    /\ res' = [err |-> "none", terms |-> LinkActionTerms(arg.shape, arg.pt)]
    /\ UNCHANGED <<arg, FieldVars>>

NextPlaq ==
    \/ SitePlaqLinksCall
    \/ LinkPlaqLinksCall
    \/ SitePlaquetteCall
    \/ LinkActionTermsCall

SpecPlaq == InitPlaq /\ [][NextPlaq]_vars

Answered(f) == res # Pending /\ arg.fn = f /\ res.err = "none"

ExtentsAtLeast2(sh) == \A k \in 1..Len(sh) : sh[k] >= 2

LinkInRange(sh, l) == \A k \in 1..Len(sh) : 0 <= l[k] /\ l[k] <= sh[k] - 1

\* what C4 says of the answered link_action query
LinkCoverage ==
    LET sh == arg.shape
        l == arg.pt
        D == NumDims(sh)
        dl == l[D + 1]
        site == SubSeq(l, 1, D)
        terms == res.terms
        base(t) == IF SignOf(t.s) = 1 THEN site
                   ELSE WrapLink(sh, increment_array(site, << <<t.d, 0 - 1>> >>))
        triple(t) == <<base(t), Min({dl, t.d}), Max({dl, t.d})>>
        containing ==
            {p \in SitesOf(sh) \X Dirs(sh) \X Dirs(sh) :
                /\ p[2] < p[3]
                /\ \E j \in 1..4 : p_sites(sh, p[1], p[2], p[3])[j] = l}
    IN  /\ Len(terms) = 2 * (D - 1)
        /\ {<<terms[k].d, terms[k].s>> : k \in 1..Len(terms)}
               = (Dirs(sh) \ {dl}) \X {0, 1}
        /\ \A k \in 1..Len(terms) :
               /\ terms[k].ls = p_sites(sh, base(terms[k]), dl, terms[k].d)
               /\ \E j \in 1..4 : terms[k].ls[j] = l
        /\ {triple(terms[k]) : k \in 1..Len(terms)} = containing
        /\ Cardinality(containing) = Len(terms)

C5_LookupsInRange ==
    \A f \in {"site_plaq_links", "link_plaq_links", "site_plaquette"} :
        Answered(f) =>
            \A k \in 1..Len(res.ls) : LinkInRange(arg.shape, res.ls[k])

\* a lookup with coinciding directions was made: site_plaq_links with
\* d1 = d2, or link_plaq_links with the link's own direction
Coinciding ==
    /\ res # Pending
    /\ \/ arg.fn = "site_plaq_links" /\ arg.a = arg.b
       \/ arg.fn = "link_plaq_links" /\ arg.a = arg.pt[Len(arg.pt)]

\* C17: a plaquette lookup with coinciding directions fails with an error
\* instead of returning a value: site_plaq_links(site, d1, d2) with d1 = d2,
\* and link_plaq_links(link, direction, sign) with direction the link's own
\* direction, for either sign.
C17_CoincidingRaise == Coinciding => res.err # "none"

\* what the lookups do instead: they fall through every branch and return
\* None
C17_CoincidingReturnNone == Coinciding => (res.err = "none" /\ res.ls = <<>>)

(***************************************************************************)
(* The Metropolis rule: utils.py.  Actions and beta are floats; the model  *)
(* keeps the finite ones exact and the IEEE specials by name.  A finite    *)
(* action is an integer n; a finite beta is n * ln 2, so that              *)
(* exp(-beta * delta_S) is the exact power of two 2^(-n * delta_S).  A     *)
(* draw of np.random.random() is rn / RandDen with 0 <= rn < RandDen.      *)
(***************************************************************************)
Fin(n) == [k |-> "fin", n |-> n]
PInf == [k |-> "pinf", n |-> 0]
NInf == [k |-> "ninf", n |-> 0]
NaN == [k |-> "nan", n |-> 0]

IsFinite(x) == x.k = "fin"

\* float comparison x < y and x == y (false whenever a NaN is involved)
ExtLess(x, y) ==
    /\ x.k # "nan" /\ y.k # "nan"
    /\ \/ x.k = "ninf" /\ y.k # "ninf"
       \/ x.k = "fin" /\ y.k = "pinf"
       \/ x.k = "fin" /\ y.k = "fin" /\ x.n < y.n

ExtEq(x, y) ==
    /\ x.k # "nan" /\ y.k # "nan"
    /\ x.k = y.k
    /\ x.k = "fin" => x.n = y.n

ExtNeg(x) ==
    CASE x.k = "fin" -> Fin(0 - x.n)
      [] x.k = "pinf" -> NInf
      [] x.k = "ninf" -> PInf
      [] OTHER -> NaN

\* float x - y: inf - inf is NaN
ExtSub(x, y) ==
    CASE x.k = "nan" \/ y.k = "nan" -> NaN
      [] x.k = "fin" /\ y.k = "fin" -> Fin(x.n - y.n)
      [] x.k = y.k -> NaN
      [] x.k = "fin" -> ExtNeg(y)
      [] OTHER -> x

ExtSign(x) ==
    CASE x.k = "pinf" -> 1
      [] x.k = "ninf" -> 0 - 1
      [] x.k = "fin" /\ x.n > 0 -> 1
      [] x.k = "fin" /\ x.n < 0 -> 0 - 1
      [] OTHER -> 0

\* float x * y: inf * 0 is NaN
ExtMul(x, y) ==
    CASE x.k = "nan" \/ y.k = "nan" -> NaN
      [] x.k = "fin" /\ y.k = "fin" -> Fin(x.n * y.n)
      [] ExtSign(x) = 0 \/ ExtSign(y) = 0 -> NaN
      [] ExtSign(x) * ExtSign(y) > 0 -> PInf
      [] OTHER -> NInf

RECURSIVE Pow2(_)
Pow2(e) == IF e <= 0 THEN 1 ELSE 2 * Pow2(e - 1)

\* a double holds no positive value below 2^-1074: np.exp(x) is 0.0 once
\* x, in units of ln 2, is at or below -ExpUnderflow
ExpUnderflow == 1075

\* np.exp(x) > rn / RandDen, x counted in units of ln 2 (den below 2^30)
ExpGreater(x, rn, den) ==
    CASE x.k = "nan" -> FALSE
      [] x.k = "pinf" -> TRUE
      [] x.k = "ninf" -> 0 > rn
      [] x.n >= 0 -> Pow2(x.n) * den > rn
      [] x.n <= 0 - ExpUnderflow -> 0 > rn
      [] OTHER -> rn = 0 \/ (0 - x.n <= 30 /\ den > rn * Pow2(0 - x.n))

\* the rule without its exponential branch
metropolis_downhill_only(s1, s2, beta, rn, den) ==
    ExtLess(ExtSub(s2, s1), Fin(0))

metropolis_swapped(s1, s2, beta, rn, den) ==
    LET delta_S == ExtSub(s1, s2)
    IN  \/ ExtLess(delta_S, Fin(0))
        \/ ExpGreater(ExtMul(ExtNeg(beta), delta_S), rn, den)

\* utils.py:5-24
metropolis(s1, s2, beta, rn, den) ==
    LET delta_S == ExtSub(s2, s1)
    IN  \/ ExtLess(delta_S, Fin(0))
        \/ ExpGreater(ExtMul(ExtNeg(beta), delta_S), rn, den)

(***************************************************************************)
(* Study of the Metropolis rule: two actions, a beta and a draw are        *)
(* chosen and the rule is applied.                                         *)
(***************************************************************************)
ExtActions == {Fin(n) : n \in 0..MaxAction} \cup {PInf, NInf, NaN}

ExtBetas == {Fin(n) : n \in (0 - 1)..MaxBeta} \cup {PInf, NInf, NaN}

Draws == 0..(RandDen - 1)

InitMetro ==
    /\ FieldIdle
    /\ arg \in [s1 : ExtActions, s2 : ExtActions, beta : ExtBetas, rn : Draws]
    /\ res = Pending

MetropolisCall ==
    /\ res = Pending
    /\ res' = [err |-> "none",
               ret |-> metropolis(arg.s1, arg.s2, arg.beta, arg.rn, RandDen)]
    /\ UNCHANGED <<arg, FieldVars>>

NextMetro == MetropolisCall

SpecMetro == InitMetro /\ [][NextMetro]_vars

\* C9 as stated: metropolis(s1, s2, beta) returns True for every draw
\* whenever s2 < s1, and also whenever s2 == s1, for every beta.
C9_AcceptsNonIncrease ==
    (res # Pending /\ (ExtLess(arg.s2, arg.s1) \/ ExtEq(arg.s2, arg.s1)))
        => res.ret = TRUE

\* C9 amended: True for every draw whenever s2 < s1, for every beta, and
\* whenever s2 == s1 with both actions and beta finite.
C9_AcceptsNonIncreaseFinite ==
    (/\ res # Pending
     /\ \/ ExtLess(arg.s2, arg.s1)
        \/ ExtEq(arg.s2, arg.s1) /\ IsFinite(arg.s1) /\ IsFinite(arg.beta))
        => res.ret = TRUE

\* the rule was applied to equal finite actions at a positive finite beta
\* with the largest draw
C9_Witness ==
    /\ res # Pending
    /\ arg.s1 = Fin(2) /\ arg.s2 = Fin(2) /\ arg.beta = Fin(MaxBeta)
    /\ arg.rn = RandDen - 1
    /\ res.ret = TRUE

(***************************************************************************)
(* The gauge field: field.py.  links maps every link identity of the       *)
(* lattice to the stored integer.  A raised exception ends the operation   *)
(* where it is raised and leaves the storage as it is at that moment.      *)
(***************************************************************************)
\* the one element of a singleton: The({f(x) : x \in {e}}) is f(e) with e
\* evaluated once
The(S) == CHOOSE x \in S : TRUE

\* field.py:110-122  Prod: group(a, b, inv[c], inv[d]), the three lookups
\* of IntGroup.__call__ written out
Prod(G, a, b, c, d) ==
    G.table[At(G.table[At(G.table[At(a, G.N)][At(b, G.N)], G.N)]
                      [G.inv[At(c, G.N)]], G.N)]
           [G.inv[At(d, G.N)]]

\* Prod indexes inv and table with the four stored values: IndexError when
\* one of them is no numpy index into an axis of length N
ProdRaises(G, a, b, c, d) ==
    \/ ~InBounds(a, G.N) \/ ~InBounds(b, G.N)
    \/ ~InBounds(c, G.N) \/ ~InBounds(d, G.N)

\* field.py:226-236  action += self.action(self.Prod(...)) over the terms
RECURSIVE SumActions(_, _, _, _)
SumActions(G, lk, terms, k) ==
    IF k > Len(terms) THEN 0
    ELSE DeltaAction(G, Prod(G, lk[terms[k].ls[1]], lk[terms[k].ls[2]],
                                lk[terms[k].ls[3]], lk[terms[k].ls[4]]))
         + SumActions(G, lk, terms, k + 1)

\* field.py:226-238  the loop of link_action over the storage lk1 it reads,
\* then the restore of val0 when a val was given
LinkActionRun(G, lk1, terms, l, val0, given) ==
    IF \E k \in 1..Len(terms) :
           ProdRaises(G, lk1[terms[k].ls[1]], lk1[terms[k].ls[2]],
                         lk1[terms[k].ls[3]], lk1[terms[k].ls[4]])
        THEN [err |-> "IndexError", action |-> 0, links |-> lk1]
    ELSE [err |-> "none", action |-> SumActions(G, lk1, terms, 1),
          links |-> IF given THEN [lk1 EXCEPT ![l] = val0] ELSE lk1]

link_action_no_restore(lat, G, lk, l, val) ==
    The({LinkActionRun(G, lk1, terms, l, val0, FALSE) :
            lk1 \in {IF val # <<>> THEN [lk EXCEPT ![l] = val[1]] ELSE lk},
            terms \in {lat.terms[l]}, val0 \in {lk[l]}})

link_action_falsy_val(lat, G, lk, l, val) ==
    The({LinkActionRun(G, lk1, terms, l, val0, val # <<>> /\ val[1] # 0) :
            lk1 \in {IF val # <<>> /\ val[1] # 0
                         THEN [lk EXCEPT ![l] = val[1]] ELSE lk},
            terms \in {lat.terms[l]}, val0 \in {lk[l]}})

\* field.py:206-238, 308  link_action(l, val) with method 0; val is <<>> for
\* None and <<v>> for the value v.  Returns the sum and the storage the
\* call leaves behind.
link_action(lat, G, lk, l, val) ==
    The({LinkActionRun(G, lk1, terms, l, val0, val # <<>>) :
            lk1 \in {IF val # <<>> THEN [lk EXCEPT ![l] = val[1]] ELSE lk},
            terms \in {lat.terms[l]}, val0 \in {lk[l]}})

\* field.py:313-316  the link_action calls of update(i) in the order they
\* run: calls 1 and 2 build tup, calls 3 and 4 are the arguments of
\* metropolis; c is the outcome of call k, s1 the action call 3 returned
RECURSIVE UpdateCalls(_, _, _, _, _, _, _, _, _)
UpdateCalls(lat, G, beta, i, new_g, rn, k, s1, c) ==
    IF c.err # "none" THEN [err |-> c.err, acc |-> FALSE, links |-> c.links]
    ELSE IF k = 4
        THEN IF metropolis(Fin(s1), Fin(c.action), beta, rn, RandDen)
                 THEN [err |-> "none", acc |-> TRUE,
                       links |-> [c.links EXCEPT ![i] = new_g]]
             ELSE [err |-> "none", acc |-> FALSE, links |-> c.links]
    ELSE The({UpdateCalls(lat, G, beta, i, new_g, rn, k + 1, c.action, c2) :
                 c2 \in {link_action(lat, G, c.links, i,
                                     IF k % 2 = 1 THEN <<new_g>> ELSE <<>>)}})

\* field.py:310-317  update(i) with the candidate new_g and the draw rn of
\* the acceptance rule
update(lat, G, beta, lk, i, new_g, rn) ==
    The({UpdateCalls(lat, G, beta, i, new_g, rn, 1, 0, c1) :
            c1 \in {link_action(lat, G, lk, i, <<>>)}})

\* field.py:49, 54  the slice links[shape[0]//2:]
InFixedHalf(sh, l) == l[1] >= sh[1] \div 2

\* field.py:29-54  initialize(init): the storages the call can leave, init
\* being 'id', an integer, 'rand', 'half' or 'half<v>'
InitializeResults(sh, lat, G, lk, init) ==
    LET random == [lat.link_set -> 0..(G.N - 1)]
        halved(v) == {[l \in lat.link_set |->
                          IF InFixedHalf(sh, l) THEN v ELSE r[l]] : r \in random}
    IN  CASE init.kind = "id" -> {[l \in lat.link_set |-> G.id]}
          [] init.kind = "int" /\ init.v < G.N -> {[l \in lat.link_set |-> init.v]}
          [] init.kind = "rand" -> random
          [] init.kind = "half" -> halved(G.id)
          [] init.kind = "halfv" -> halved(init.v)
          [] OTHER -> {lk}

\* field.py:38, 50  an integer init that is not below group.size reaches
\* init[:4], which an integer does not support: TypeError
InitializeRaises(G, init) == init.kind = "int" /\ init.v >= G.N

\* utils.py:32-36  multirange(links_shape): the rank of a link in the
\* lexicographic order of it.product
RECURSIVE LinkRankFrom(_, _, _, _)
LinkRankFrom(sh, l, k, acc) ==
    IF k > Len(l) THEN acc
    ELSE LinkRankFrom(sh, l, k + 1,
                      acc * (IF k <= Len(sh) THEN sh[k] ELSE Len(sh)) + l[k])

LinkRank(sh, l) == LinkRankFrom(sh, l, 1, 0)

\* the links in the order multirange(links_shape) yields them
LinkOrder(sh) ==
    [k \in 1..NumLinks(sh) |-> CHOOSE l \in LinksOf(sh) : LinkRank(sh, l) = k - 1]

\* utils.py:32-36  multirange(shape): the sites in the lexicographic order of
\* it.product
SiteOrder(sh) ==
    [k \in 1..num_sites(sh) |-> CHOOSE s \in SitesOf(sh) : LinkRank(sh, s) = k - 1]

\* field.py:364  it.combinations(range(num_dims), 2): the pairs d1 < d2 in
\* lexicographic order
DirPairs(D) == {p \in (0..(D - 1)) \X (0..(D - 1)) : p[1] < p[2]}

Combinations(D) ==
    [k \in 1..Cardinality(DirPairs(D)) |->
        CHOOSE p \in DirPairs(D) :
            Cardinality({q \in DirPairs(D) :
                            q[1] < p[1] \/ (q[1] = p[1] /\ q[2] < p[2])}) = k - 1]

\* field.py:362-365  the plaquettes energy() visits, in loop order:
\* le = lattice.p_sites[i + j] for every site i and every pair j
EnergyTerms(sh) ==
    LET sites == SiteOrder(sh)
        pairs == Combinations(NumDims(sh))
        np == Len(pairs)
    IN  [t \in 1..(Len(sites) * np) |->
            LET i == sites[((t - 1) \div np) + 1]
                j == pairs[((t - 1) % np) + 1]
            IN  [site |-> i, d1 |-> j[1], d2 |-> j[2],
                 ls |-> p_sites(sh, i, j[1], j[2])]]

\* Lattice(shape): what the lattice holds once it is built
Lattice(sh) ==
    [num_dims |-> NumDims(sh),
     num_sites |-> num_sites(sh),
     num_links |-> NumLinks(sh),
     link_set |-> LinksOf(sh),
     order |-> LinkOrder(sh),
     terms |-> [l \in LinksOf(sh) |-> LinkActionTerms(sh, l)],
     plaqs |-> EnergyTerms(sh)]

(***************************************************************************)
(* The field as a state machine: construction, then any sequence of        *)
(* initialize, B assignments, update, rand_update, link_action and sweep   *)
(* calls; a sweep is a run of update steps that nothing interleaves.       *)
(***************************************************************************)
\* the lattices with at most n links
ShapesUpTo(n) ==
    {sh \in UNION {[1..D -> 1..MaxExtent] : D \in 2..MaxDims} : NumLinks(sh) <= n}

\* Z_2..Z_MaxGroupN and the Klein group, as far as they give the lattice at
\* most n link configurations
GroupsUpTo(sh, n) ==
    {G \in {ZN(N) : N \in 2..MaxGroupN} \cup {Klein} : Pow(G.N, NumLinks(sh)) <= n}

\* B of the field machine: n * ln 2 for n in 0..MaxFieldBeta
FieldBetas == {Fin(n) : n \in 0..MaxFieldBeta}

\* B of the single-call study: the same, and +inf
CallBetas == FieldBetas \cup {PInf}

\* the init arguments: the named policies, and integers and 'half<v>' with
\* v from -1 to N
Inits(G) ==
    {[kind |-> k, v |-> 0] : k \in {"id", "rand", "half"}}
    \cup {[kind |-> k, v |-> v] : k \in {"int", "halfv"}, v \in (0 - 1)..G.N}

\* the val arguments of link_action: None and the group elements
LinkVals(G) == {<<>>} \cup {<<v>> : v \in 0..(G.N - 1)}

\* the val arguments of the single-call study: None and the integers -1..N
CallVals(G) == {<<>>} \cup {<<v>> : v \in (0 - 1)..G.N}

Did(op, l, cand, acc, err, ret, pre) ==
    [op |-> op, link |-> l, cand |-> cand, acc |-> acc, err |-> err,
     ret |-> ret, pre |-> pre]

NoLink == <<>>

\* Field(shape, group, B, init): the fields on the lattices up to nlinks
\* links and nconfigs configurations with B among betas; budget is "any" when the field goes
\* on to take any sequence of calls and "one" when it takes a single call
FieldInit(nlinks, nconfigs, betas, budget) ==
    /\ shape \in ShapesUpTo(nlinks)
    /\ lattice = Lattice(shape)
    /\ group \in GroupsUpTo(shape, nconfigs)
    /\ B \in betas
    /\ \E init \in Inits(group) :
        /\ ~InitializeRaises(group, init)
        /\ links \in InitializeResults(shape, lattice, group,
                                       [l \in lattice.link_set |-> 0], init)
    /\ pc = 0
    /\ calls = budget
    /\ drawn = <<>>
    /\ last = Did("initialize", NoLink, <<>>, FALSE, "none", 0, links)
    /\ arg = Pending
    /\ res = Pending

\* a call from outside is taken when no sweep runs and the budget allows
Callable == pc = 0 /\ calls # "spent"
Called == calls' = IF calls = "one" THEN "spent" ELSE calls

Init == FieldInit(MaxLinks, MaxConfigs, FieldBetas, "any")

Initialize(init) ==
    /\ Callable /\ Called
    /\ IF InitializeRaises(group, init)
           THEN /\ links' = links
                /\ last' = Did("initialize", NoLink, <<>>, FALSE, "TypeError", 0, links')
           ELSE /\ links' \in InitializeResults(shape, lattice, group, links, init)
                /\ last' = Did("initialize", NoLink, <<>>, FALSE, "none", 0, links')
    /\ UNCHANGED <<shape, lattice, group, B, pc, drawn, arg, res>>

SetB(beta) ==
    /\ Callable /\ Called
    /\ B' = beta
    /\ last' = Did("B", NoLink, <<>>, FALSE, "none", 0, links)
    /\ UNCHANGED <<shape, lattice, group, links, pc, drawn, arg, res>>

\* a call of link_action from outside update
LinkActionCall(l, val) ==
    /\ Callable /\ Called
    /\ \E c \in {link_action(lattice, group, links, l, val)} :
           /\ links' = c.links
           /\ last' = Did("link_action", l, val, FALSE, c.err, c.action, links)
    /\ UNCHANGED <<shape, lattice, group, B, pc, drawn, arg, res>>

Update(i, new_g, rn) ==
    /\ Callable /\ Called
    /\ \E u \in {update(lattice, group, B, links, i, new_g, rn)} :
           /\ links' = u.links
           /\ last' = Did("update", i, <<new_g>>, u.acc, u.err, 0, links)
    /\ UNCHANGED <<shape, lattice, group, B, pc, drawn, arg, res>>

\* field.py:319-332  rand_update(n): the body of the first pass reaches the
\* name randint on line 327, which nothing defines: NameError before any
\* link is read or written; n = 0 runs no pass
RandUpdate(n) ==
    /\ Callable /\ Called
    /\ links' = links
    /\ last' = Did("rand_update", NoLink, <<>>, FALSE,
                   IF n >= 1 THEN "NameError" ELSE "none", 0, links)
    /\ UNCHANGED <<shape, lattice, group, B, pc, drawn, arg, res>>

\* field.py:334-338  sweep() is entered: the walk over
\* multirange(links_shape) starts at its first link
SweepCall ==
    /\ Callable /\ Called
    /\ pc' = 1
    /\ drawn' = <<>>
    /\ last' = Did("sweep_call", NoLink, <<>>, FALSE, "none", 0, links)
    /\ UNCHANGED <<shape, lattice, group, B, links, arg, res>>

\* field.py:337-338  one pass of the loop: update(i) on the next link; an
\* exception leaves the sweep, the last link ends it
SweepStep(new_g, rn) ==
    /\ pc >= 1 /\ pc <= lattice.num_links
    /\ \E u \in {update(lattice, group, B, links, lattice.order[pc], new_g, rn)} :
           /\ links' = u.links
           /\ drawn' = Append(drawn, new_g)
           /\ pc' = IF u.err # "none" THEN 0 - 1 ELSE pc + 1
           /\ last' = Did("sweep_update", lattice.order[pc], <<new_g>>,
                          u.acc, u.err, 0, links)
    /\ UNCHANGED <<shape, lattice, group, B, calls, arg, res>>

\* sweep() is left: by the exception of an update (pc = -1) or at the end
\* of the walk
SweepReturn ==
    /\ pc = 0 - 1 \/ pc = lattice.num_links + 1
    /\ pc' = 0
    /\ drawn' = <<>>
    /\ last' = Did("sweep", NoLink, <<>>, FALSE, last.err, 0, links)
    /\ UNCHANGED <<shape, lattice, group, B, links, calls, arg, res>>

Next ==
    \/ \E init \in Inits(group) : Initialize(init)
    \/ \E beta \in FieldBetas : SetB(beta)
    \/ \E l \in lattice.link_set, val \in LinkVals(group) : LinkActionCall(l, val)
    \/ \E i \in lattice.link_set, new_g \in 0..(group.N - 1), rn \in Draws :
           Update(i, new_g, rn)
    \/ \E n \in 0..MaxRandUpdates : RandUpdate(n)
    \/ SweepCall
    \/ \E new_g \in 0..(group.N - 1), rn \in Draws : SweepStep(new_g, rn)
    \/ SweepReturn

Spec == Init /\ [][Next]_vars

(***************************************************************************)
(* Single calls of update and link_action on freshly constructed fields,   *)
(* on lattices up to the 2 x 2 one.                                        *)
(***************************************************************************)
InitCall == FieldInit(MaxCallLinks, MaxCallConfigs, CallBetas, "one")

NextCall ==
    \/ \E i \in lattice.link_set, new_g \in 0..(group.N - 1), rn \in Draws :
           Update(i, new_g, rn)
    \/ \E l \in lattice.link_set, val \in CallVals(group) : LinkActionCall(l, val)

SpecCall == InitCall /\ [][NextCall]_vars

Committed(pre, l, cand, acc) ==
    [x \in DOMAIN pre |-> IF x = l /\ acc THEN cand[1] ELSE pre[x]]

Substituted(lk, l, val) ==
    [x \in DOMAIN lk |-> IF x = l /\ val # <<>> THEN val[1] ELSE lk[x]]

SweepLeft == pc = 0 - 1 \/ pc = lattice.num_links + 1

\* every link visited holds the candidate drawn for it
HoldsDrawn ==
    /\ Len(drawn) = lattice.num_links
    /\ \A k \in 1..lattice.num_links : links[lattice.order[k]] = drawn[k]

C10_CompletedSweeps ==
    (B = Fin(0) /\ pc = lattice.num_links + 1) => HoldsDrawn

(***************************************************************************)
(* Study of the group constructor: a table is drawn, IntGroup is built.    *)
(***************************************************************************)
TableEntryRange(N) == IF N <= MaxBadN THEN (0 - 1)..N ELSE 0..(N - 1)

\* the square integer tables with 1..n rows
TablesUpTo(n) ==
    UNION {[0..(N-1) -> [0..(N-1) -> TableEntryRange(N)]] : N \in 1..n}

InitGroup ==
    /\ FieldIdle
    /\ arg \in TablesUpTo(MaxTableN)
    /\ res = Pending

Construct ==
    /\ res = Pending
    /\ res' = IntGroupInit(arg)
    /\ UNCHANGED <<arg, FieldVars>>

NextGroup == Construct

SpecGroup == InitGroup /\ [][NextGroup]_vars

Constructed == res # Pending /\ res.err = "none"

\* e is a two-sided identity of the table
IsIdentity(table, e) ==
    \A x \in DOMAIN table : table[e][x] = x /\ table[x][e] = x

EntriesInRange(table) ==
    \A v \in TableEntries(table) : 0 <= v /\ v <= TableSize(table) - 1

\* C6: for every IntGroup whose construction succeeds and every element x,
\* table[x][inv[x]] == id and table[inv[x]][x] == id (stated for the tables
\* whose entries all lie in 0..N-1).
C6_InverseBothSides ==
    (Constructed /\ EntriesInRange(arg)) =>
        \A x \in 0..(res.N - 1) :
            /\ res.table[x][res.inv[x]] = res.id
            /\ res.table[res.inv[x]][x] = res.id

\* C7: a table with no two-sided identity (or with more than one) fails at
\* construction, and whenever construction succeeds id is the unique
\* two-sided identity (stated for the tables whose entries all lie in 0..N-1).
C7_IdentityValidated ==
    (res # Pending /\ EntriesInRange(arg)) =>
        /\ Cardinality({e \in DOMAIN arg : IsIdentity(arg, e)}) # 1
                => res.err # "none"
        /\ res.err = "none"
                => {e \in DOMAIN arg : IsIdentity(arg, e)} = {res.id}

\* C8: a table holding an entry outside 0..N-1 is rejected with the
\* ValueError of the value check, before any lookup uses that entry.
C8_RangeRejected ==
    (res # Pending /\ ~EntriesInRange(arg)) =>
        (res.err = "ValueError" /\ res.at = "values")

\* the sets Cl[x] partition 0..N-1, each x in its own
ClassesPartition(N, Cl) ==
    /\ \A x \in 0..(N - 1) : x \in Cl[x]
    /\ UNION {Cl[x] : x \in 0..(N - 1)} = 0..(N - 1)
    /\ \A x, y \in 0..(N - 1) : Cl[x] = Cl[y] \/ Cl[x] \cap Cl[y] = {}

\* the table is the multiplication table of a group on 0..N-1
IsGroupTable(table) ==
    /\ EntriesInRange(table)
    /\ \A a, b, c \in DOMAIN table : table[table[a][b]][c] = table[a][table[b][c]]
    /\ \E e \in DOMAIN table :
           /\ IsIdentity(table, e)
           /\ \A a \in DOMAIN table : \E b \in DOMAIN table :
                  table[a][b] = e /\ table[b][a] = e

\* C21: for every IntGroup whose construction succeeds, the conjugacy
\* classes Cl[x] = { g*x*inv(g) : g in elements } partition the element
\* set: x is in Cl[x], the union of all classes is 0..N-1, and any two
\* classes are equal or disjoint.
C21_ClassesPartition == Constructed => ClassesPartition(res.N, res.Cl)

\* the same for the tables that are multiplication tables of groups
C21_GroupClassesPartition ==
    (Constructed /\ IsGroupTable(arg)) => ClassesPartition(res.N, res.Cl)

\* a group table with three elements was constructed
C21_Reached == Constructed /\ IsGroupTable(arg) /\ res.N = 3

(***************************************************************************)
(* The energy per plaquette: field.py, Field.energy with method 2.  The    *)
(* float returned is num / den.                                            *)
(***************************************************************************)
\* field.py:358-374  energy(): the sum of the plaquette actions over
\* lattice.plaqs, then the division by num_sites * D * (D - 1) / 2
energy(lat, G, lk) ==
    IF \E k \in 1..Len(lat.plaqs) :
           ProdRaises(G, lk[lat.plaqs[k].ls[1]], lk[lat.plaqs[k].ls[2]],
                         lk[lat.plaqs[k].ls[3]], lk[lat.plaqs[k].ls[4]])
        THEN [err |-> "IndexError", num |-> 0, den |-> 1]
    ELSE [err |-> "none", num |-> SumActions(G, lk, lat.plaqs, 1),
          den |-> (lat.num_sites * lat.num_dims * (lat.num_dims - 1)) \div 2]

\* a call of energy() from outside
EnergyCall ==
    /\ Callable /\ Called
    /\ \E e \in {energy(lattice, group, links)} :
           /\ res' = e
           /\ last' = Did("energy", NoLink, <<>>, FALSE, e.err, e.num, links)
    /\ UNCHANGED <<shape, lattice, group, B, links, pc, drawn, arg>>

(***************************************************************************)
(* energy() on the fields whose links all hold the identity, on lattices   *)
(* up to the 2 x 2 x 2 one.                                                *)
(***************************************************************************)
AllGroups == {ZN(N) : N \in 2..MaxGroupN} \cup {Klein}

\* Field(shape, group, B, init='id')
InitIdentity ==
    /\ shape \in ShapesUpTo(MaxIdLinks)
    /\ lattice = Lattice(shape)
    /\ group \in AllGroups
    /\ B \in FieldBetas
    /\ links \in InitializeResults(shape, lattice, group,
                                   [l \in lattice.link_set |-> 0],
                                   [kind |-> "id", v |-> 0])
    /\ pc = 0
    /\ calls = "one"
    /\ drawn = <<>>
    /\ last = Did("initialize", NoLink, <<>>, FALSE, "none", 0, links)
    /\ arg = Pending
    /\ res = Pending

NextIdentity == EnergyCall

SpecIdentity == InitIdentity /\ [][NextIdentity]_vars

\* the plaquette product at site i in the directions d1, d2
PlaquetteProd(i, d1, d2) ==
    Prod(group, links[p_sites(shape, i, d1, d2)[1]],
                links[p_sites(shape, i, d1, d2)[2]],
                links[p_sites(shape, i, d1, d2)[3]],
                links[p_sites(shape, i, d1, d2)[4]])

InitEnergy == FieldInit(MaxCallLinks, MaxCallConfigs, FieldBetas, "one")

NextEnergy == EnergyCall

SpecEnergy == InitEnergy /\ [][NextEnergy]_vars

\* the plaquettes energy() visits are the (site, d1 < d2) triples, each once
EachPlaquetteOnce ==
    /\ \A i \in SitesOf(shape), p \in DirPairs(NumDims(shape)) :
           Cardinality({k \in 1..Len(lattice.plaqs) :
                           /\ lattice.plaqs[k].site = i
                           /\ lattice.plaqs[k].d1 = p[1]
                           /\ lattice.plaqs[k].d2 = p[2]
                           /\ lattice.plaqs[k].ls = p_sites(shape, i, p[1], p[2])}) = 1
    /\ Len(lattice.plaqs)
           = Cardinality(SitesOf(shape)) * Cardinality(DirPairs(NumDims(shape)))

\* the number of plaquettes whose product is not the identity
ExcitedPlaquettes ==
    Cardinality({<<i, p>> \in SitesOf(shape) \X DirPairs(NumDims(shape)) :
                    PlaquetteProd(i, p[1], p[2]) # group.id})

\* what energy() is expected to return: the count of excited plaquettes
\* over the number of plaquettes, between 0 and 1
EnergyAsStated ==
    /\ res.err = "none"
    /\ EachPlaquetteOnce
    /\ res.den = (lattice.num_sites * NumDims(shape) * (NumDims(shape) - 1)) \div 2
    /\ res.num = ExcitedPlaquettes
    /\ 0 <= res.num /\ res.num <= res.den

C12_IndexableConfigs ==
    (last.op = "energy"
        /\ \A l \in lattice.link_set : InBounds(links[l], group.N))
        => EnergyAsStated

(***************************************************************************)
(* sweep(num_sweeps): field.py:334-342.  num_sweeps == 1 takes the first   *)
(* branch (SweepCall, SweepStep, SweepReturn above); any other value takes *)
(* the loop over passes.  res holds the pass and the position in it, the   *)
(* number of update calls made so far and how the walk stands.             *)
(***************************************************************************)
SweepCounts == (0..MaxSweeps) \ {1}

InSweeps == pc = 0 - 2

\* field.py:339-340  sweep(num_sweeps = k), k # 1, is entered
SweepsCall(k) ==
    /\ Callable /\ Called
    /\ pc' = 0 - 2
    /\ arg' = [num_sweeps |-> k]
    /\ res' = [pass |-> 1, pos |-> 1, done |-> 0,
               walk |-> IF k >= 1 THEN "running" ELSE "finished"]
    /\ last' = Did("sweeps_call", NoLink, <<>>, FALSE, "none", 0, links)
    /\ UNCHANGED <<shape, lattice, group, B, links, drawn>>

\* field.py:341-342  one pass of the inner loop: update(j) on the next link
\* of the current pass
SweepsStep(new_g, rn) ==
    /\ InSweeps /\ res.walk = "running"
    /\ \E u \in {update(lattice, group, B, links, lattice.order[res.pos], new_g, rn)} :
           /\ links' = u.links
           /\ last' = Did("sweeps_update", lattice.order[res.pos], <<new_g>>,
                          u.acc, u.err, 0, links)
           /\ res' = IF u.err # "none"
                         THEN [res EXCEPT !.done = @ + 1, !.walk = "raised"]
                     ELSE IF res.pos < lattice.num_links
                         THEN [res EXCEPT !.done = @ + 1, !.pos = @ + 1]
                     ELSE IF res.pass < arg.num_sweeps
                         THEN [res EXCEPT !.done = @ + 1, !.pos = 1, !.pass = @ + 1]
                     ELSE [res EXCEPT !.done = @ + 1, !.walk = "finished"]
    /\ UNCHANGED <<shape, lattice, group, B, pc, calls, drawn, arg>>

\* sweep(num_sweeps) is left: by the exception of an update or after the
\* last pass
SweepsReturn ==
    /\ InSweeps /\ res.walk # "running"
    /\ pc' = 0
    /\ last' = Did("sweeps", NoLink, <<>>, FALSE,
                   IF res.walk = "raised" THEN last.err ELSE "none", 0, links)
    /\ UNCHANGED <<shape, lattice, group, B, links, calls, drawn, arg, res>>

InitSweeps == FieldInit(MaxLinks, MaxConfigs, FieldBetas, "one")

NextSweeps ==
    \/ SweepCall
    \/ \E new_g \in 0..(group.N - 1), rn \in Draws : SweepStep(new_g, rn)
    \/ SweepReturn
    \/ \E k \in SweepCounts : SweepsCall(k)
    \/ \E new_g \in 0..(group.N - 1), rn \in Draws : SweepsStep(new_g, rn)
    \/ SweepsReturn

SpecSweeps == InitSweeps /\ [][NextSweeps]_vars

\* a before b in the lexicographic order of tuples of equal length
LexBefore(a, b) ==
    \E k \in 1..Len(a) : a[k] < b[k] /\ \A j \in 1..(k - 1) : a[j] = b[j]

\* the place of link l in the lexicographic order of the links, from 1
LexPlace(l) == Cardinality({m \in lattice.link_set : LexBefore(m, l)}) + 1

\* the update calls the running sweep has made, and the passes asked of it
UpdatesDone == IF InSweeps THEN res.done ELSE Len(drawn)
PassesAsked == IF InSweeps THEN arg.num_sweeps ELSE 1

\* the sweep is about to return or to propagate an exception
SweepOver == SweepLeft \/ (InSweeps /\ res.walk # "running")
SweepRaised == pc = 0 - 1 \/ (InSweeps /\ res.walk = "raised")

\* the n-th update call of a sweep is on the link at place ((n-1) mod
\* num_links) + 1 of the lexicographic order: pass after pass, each in order
VisitsInOrder ==
    last.op \in {"sweep_update", "sweeps_update"}
        => LexPlace(last.link) = ((UpdatesDone - 1) % lattice.num_links) + 1

C13_CompletedSweeps ==
    /\ VisitsInOrder
    /\ (SweepOver /\ ~SweepRaised) => UpdatesDone = PassesAsked * lattice.num_links

(***************************************************************************)
(* stats(n, relax): field.py:376-423.  arg holds n and relax; res holds    *)
(* the loop index i, the position of the running sweep, the array energy   *)
(* (every slot with the number of times it was written) and, as history,   *)
(* the energy of the configuration after every sweep.                      *)
(***************************************************************************)
InDriver == pc = 0 - 3

\* np.zeros(n): n slots holding 0.0, none written yet
Zeros(n) == [k \in 1..n |-> [val |-> 0, writes |-> 0]]

\* array[idx] = val with numpy indexing into an axis of length Len(array)
Store(array, idx, val) ==
    [array EXCEPT ![At(idx, Len(array)) + 1] = [val |-> val, writes |-> @.writes + 1]]

\* the numerator of energy(), -1 when energy() raises
EnergyNum(lat, G, lk) ==
    The({IF e.err = "none" THEN e.num ELSE 0 - 1 : e \in {energy(lat, G, lk)}})

\* field.py:403-404  stats(n, relax) is entered: energy = np.zeros(n), then
\* the loop over range(n * relax)
StatsCall(n, relax) ==
    /\ Callable /\ Called
    /\ pc' = 0 - 3
    /\ arg' = [proc |-> "stats", n |-> n, relax |-> relax]
    /\ res' = [i |-> 0, pos |-> 1, energy |-> Zeros(n), after |-> <<>>,
               walk |-> IF n * relax >= 1 THEN "running" ELSE "finished",
               err |-> "none"]
    /\ last' = Did("stats_call", NoLink, <<>>, FALSE, "none", 0, links)
    /\ UNCHANGED <<shape, lattice, group, B, links, drawn>>

\* field.py:405-407  the end of pass i of the loop, once self.sweep() has
\* returned and left the storage lk: the sample, when (i + 1) mod relax is 0
StatsSample(r, a, lat, G, lk) ==
    LET i1 == r.i + 1
        due == i1 % a.relax = 0
        idx == (i1 \div a.relax) - 1
        e == EnergyNum(lat, G, lk)
    IN  IF due /\ e = 0 - 1
            THEN [r EXCEPT !.walk = "raised", !.err = "IndexError"]
        ELSE IF due /\ ~InBounds(idx, a.n)
            THEN [r EXCEPT !.walk = "raised", !.err = "IndexError"]
        ELSE [r EXCEPT !.i = i1, !.pos = 1,
                       !.after = Append(@, e),
                       !.energy = IF due THEN Store(@, idx, e) ELSE @,
                       !.walk = IF i1 < a.n * a.relax THEN "running" ELSE "finished"]

\* field.py:405  self.sweep() inside stats, one update at a time; after the
\* last link of the sweep the pass of the stats loop ends
StatsUpdate(new_g, rn) ==
    /\ InDriver /\ arg.proc = "stats" /\ res.walk = "running"
    /\ \E u \in {update(lattice, group, B, links, lattice.order[res.pos], new_g, rn)} :
           /\ links' = u.links
           /\ last' = Did("stats_update", lattice.order[res.pos], <<new_g>>,
                          u.acc, u.err, 0, links)
           /\ res' = IF u.err # "none"
                         THEN [res EXCEPT !.walk = "raised", !.err = u.err]
                     ELSE IF res.pos < lattice.num_links
                         THEN [res EXCEPT !.pos = @ + 1]
                     ELSE StatsSample(res, arg, lattice, group, u.links)
    /\ UNCHANGED <<shape, lattice, group, B, pc, calls, drawn, arg>>

\* stats is left: by an exception or by its return
StatsReturn ==
    /\ InDriver /\ arg.proc = "stats" /\ res.walk # "running"
    /\ pc' = 0
    /\ last' = Did("stats", NoLink, <<>>, FALSE, res.err, 0, links)
    /\ UNCHANGED <<shape, lattice, group, B, links, calls, drawn, arg, res>>

InitStats == FieldInit(MaxLinks, MaxConfigs, FieldBetas, "one")

NextStats ==
    \/ \E n \in 0..MaxSamples, relax \in 0..MaxRelax : StatsCall(n, relax)
    \/ \E new_g \in 0..(group.N - 1), rn \in Draws : StatsUpdate(new_g, rn)
    \/ StatsReturn

SpecStats == InitStats /\ [][NextStats]_vars

StatsOver == InDriver /\ arg.proc = "stats" /\ res.walk # "running"

\* n * relax sweeps were made, and slot k of energy was written once, with
\* the energy of the configuration after sweep (k + 1) * relax
SamplesAsStated ==
    /\ res.walk = "finished"
    /\ Len(res.after) = arg.n * arg.relax
    /\ Len(res.energy) = arg.n
    /\ \A k \in 0..(arg.n - 1) :
           /\ res.energy[k + 1].writes = 1
           /\ (k + 1) * arg.relax \in 1..Len(res.after)
           /\ res.energy[k + 1].val = res.after[(k + 1) * arg.relax]

C14_CompletedStats ==
    (StatsOver /\ arg.relax >= 1 /\ res.walk # "raised") => SamplesAsStated

\* a stats(2, 2) that has finished with two different samples
C14_Reached ==
    /\ StatsOver /\ arg.n = 2 /\ arg.relax = 2 /\ res.walk = "finished"
    /\ res.energy[1].val # res.energy[2].val
    /\ res.after[1] # res.after[2]

(***************************************************************************)
(* phase_sweep(field, betas, inc, num_sweeps): field.py:512-547.  arg      *)
(* holds the arguments; res holds the row i, the sweeps j made in it, the  *)
(* position of the running sweep, the array energy and, as history, the    *)
(* storage each row started from and the energy after every sweep of it.   *)
(***************************************************************************)
\* np.zeros((rows, cols))
Zeros2(rows, cols) == [i \in 1..rows |-> Zeros(cols)]

\* the sequences of betas handed to the drivers
BetaSeqs == UNION {[1..n -> FieldBetas] : n \in 0..MaxBetas}

\* field.py:536  phase_sweep is entered: energy = np.zeros((len(betas),
\* 1 + num_sweeps // inc))
PhaseCall(betas, inc, num_sweeps) ==
    /\ Callable /\ Called
    /\ pc' = 0 - 3
    /\ arg' = [proc |-> "phase_sweep", betas |-> betas, inc |-> inc,
               num_sweeps |-> num_sweeps]
    /\ res' = [i |-> 0, j |-> 0, pos |-> 0,
               energy |-> Zeros2(Len(betas), 1 + (num_sweeps \div inc)),
               start |-> <<>>, after |-> <<>>,
               walk |-> IF Len(betas) >= 1 THEN "running" ELSE "finished",
               err |-> "none"]
    /\ last' = Did("phase_sweep_call", NoLink, <<>>, FALSE, "none", 0, links)
    /\ UNCHANGED <<shape, lattice, group, B, links, drawn>>

\* the row of the loop over betas ends after its last sweep: the next row,
\* or the return
PhaseRowEnd(r, a) ==
    IF r.i + 1 < Len(a.betas)
        THEN [r EXCEPT !.i = @ + 1, !.j = 0, !.pos = 0]
    ELSE [r EXCEPT !.walk = "finished"]

\* field.py:537-542  row i starts: field.initialize('half'), field.B =
\* betas[i], energy[i, 0] = field.energy()
PhaseRow ==
    /\ InDriver /\ arg.proc = "phase_sweep" /\ res.walk = "running" /\ res.pos = 0
    /\ links' \in InitializeResults(shape, lattice, group, links,
                                    [kind |-> "half", v |-> 0])
    /\ B' = arg.betas[res.i + 1]
    /\ \E e \in {EnergyNum(lattice, group, links')} :
        \E r \in {[res EXCEPT !.energy[res.i + 1] = Store(@, 0, e),
                               !.start = Append(@, links'),
                               !.after = Append(@, <<e>>)]} :
           res' = IF arg.num_sweeps >= 1 THEN [r EXCEPT !.pos = 1]
                  ELSE PhaseRowEnd(r, arg)
    /\ last' = Did("phase_sweep_row", NoLink, <<>>, FALSE, "none", 0, links')
    /\ UNCHANGED <<shape, lattice, group, pc, calls, drawn, arg>>

PhaseSample_column_before(r, a, lat, G, lk) ==
    LET j1 == r.j + 1
        due == j1 % a.inc = 0
        col == (j1 \div a.inc) - 1
        e == EnergyNum(lat, G, lk)
    IN  IF due /\ ~InBounds(col, Len(r.energy[r.i + 1]))
            THEN [r EXCEPT !.walk = "raised", !.err = "IndexError"]
        ELSE The({IF j1 < a.num_sweeps THEN r2 ELSE PhaseRowEnd(r2, a) :
                    r2 \in {[r EXCEPT !.j = j1, !.pos = 1,
                                      !.after[r.i + 1] = Append(@, e),
                                      !.energy[r.i + 1] =
                                          IF due THEN Store(@, col, e) ELSE @]}})

\* field.py:543-546  the end of sweep j of row i, the sweep having left the
\* storage lk: the sample in column (j + 1) // inc when (j + 1) mod inc is 0
PhaseSample(r, a, lat, G, lk) ==
    LET j1 == r.j + 1
        due == j1 % a.inc = 0
        col == j1 \div a.inc
        e == EnergyNum(lat, G, lk)
    IN  IF due /\ ~InBounds(col, Len(r.energy[r.i + 1]))
            THEN [r EXCEPT !.walk = "raised", !.err = "IndexError"]
        ELSE The({IF j1 < a.num_sweeps THEN r2 ELSE PhaseRowEnd(r2, a) :
                    r2 \in {[r EXCEPT !.j = j1, !.pos = 1,
                                      !.after[r.i + 1] = Append(@, e),
                                      !.energy[r.i + 1] =
                                          IF due THEN Store(@, col, e) ELSE @]}})

\* field.py:544  field.sweep() inside phase_sweep, one update at a time
PhaseUpdate(new_g, rn) ==
    /\ InDriver /\ arg.proc = "phase_sweep" /\ res.walk = "running" /\ res.pos >= 1
    /\ \E u \in {update(lattice, group, B, links, lattice.order[res.pos], new_g, rn)} :
           /\ links' = u.links
           /\ last' = Did("phase_sweep_update", lattice.order[res.pos], <<>>,
                          FALSE, u.err, 0, u.links)
           /\ res' = IF u.err # "none"
                         THEN [res EXCEPT !.walk = "raised", !.err = u.err]
                     ELSE IF res.pos < lattice.num_links
                         THEN [res EXCEPT !.pos = @ + 1]
                     ELSE PhaseSample(res, arg, lattice, group, u.links)
    /\ UNCHANGED <<shape, lattice, group, B, pc, calls, drawn, arg>>

\* phase_sweep is left: by an exception or by its return
PhaseReturn ==
    /\ InDriver /\ arg.proc = "phase_sweep" /\ res.walk # "running"
    /\ pc' = 0
    /\ last' = Did("phase_sweep", NoLink, <<>>, FALSE, res.err, 0, links)
    /\ UNCHANGED <<shape, lattice, group, B, links, calls, drawn, arg, res>>

InitPhase == FieldInit(MaxLinks, MaxConfigs, FieldBetas, "one")

NextPhase ==
    \/ \E betas \in BetaSeqs, inc \in 1..MaxInc, num_sweeps \in 0..MaxPhaseSweeps :
           PhaseCall(betas, inc, num_sweeps)
    \/ PhaseRow
    \/ \E new_g \in 0..(group.N - 1), rn \in Draws : PhaseUpdate(new_g, rn)
    \/ PhaseReturn

SpecPhase == InitPhase /\ [][NextPhase]_vars

InPhase == InDriver /\ arg.proc = "phase_sweep"

\* the storages initialize('half') can leave: the identity on the links of
\* links[shape[0]//2:], any group element elsewhere
HalfPolicy(lk) ==
    \A l \in lattice.link_set :
        IF l[1] >= shape[1] \div 2 THEN lk[l] = group.id
        ELSE lk[l] \in 0..(group.N - 1)

\* row r (from 1) is complete: every column written once, column 0 with
\* the energy before any sweep, column c with the energy after sweep c * inc
RowAsStated(r) ==
    /\ Len(res.energy[r]) = 1 + (arg.num_sweeps \div arg.inc)
    /\ Len(res.after[r]) = 1 + arg.num_sweeps
    /\ \A c \in 0..(arg.num_sweeps \div arg.inc) :
           /\ res.energy[r][c + 1].writes = 1
           /\ res.energy[r][c + 1].val = res.after[r][c * arg.inc + 1]

Arange(a, b, step) ==
    LET span == IF step > 0 THEN b - a ELSE a - b
        by == IF step > 0 THEN step ELSE 0 - step
        n == IF span <= 0 THEN 0 ELSE (span + by - 1) \div by
    IN  [k \in 1..n |-> a + (k - 1) * step]

\* field.py:484-488  a tuple betas becomes arange(b0, b1, step) followed by
\* arange(b1, b0, -step); an array is taken as it is.  Betas are counted in
\* units of ln 2.
HystBetas(given) ==
    IF given.kind = "tuple"
        THEN [k \in 1..(Len(Arange(given.b[1], given.b[2], given.b[3]))
                        + Len(Arange(given.b[2], given.b[1], 0 - given.b[3]))) |->
                 Fin((Arange(given.b[1], given.b[2], given.b[3])
                      \o Arange(given.b[2], given.b[1], 0 - given.b[3]))[k])]
    ELSE given.b

\* the betas arguments: arrays, and the tuples (b0, b1, 1)
HystGiven ==
    {[kind |-> "array", b |-> s] : s \in UNION {[1..n -> FieldBetas] : n \in 0..MaxHystBetas}}
    \cup {[kind |-> "tuple", b |-> <<b0, b1, 1>>] : b0, b1 \in 0..MaxTupleBeta}

\* a[::inc]
Slice(a, inc) == [k \in 1..((Len(a) + inc - 1) \div inc) |-> a[(k - 1) * inc + 1]]

RECURSIVE SumVals(_, _), SumSquares(_, _)
SumVals(a, k) == IF k = 0 THEN 0 ELSE a[k].val + SumVals(a, k - 1)
SumSquares(a, k) == IF k = 0 THEN 0 ELSE a[k].val * a[k].val + SumSquares(a, k - 1)

\* field.py:408-423  stats(..., ret='m2s'): np.mean(energy),
\* np.mean(energy**2), np.std(energy), each as numerator and denominator
\* (0/0 is numpy's nan for n = 0); for the standard deviation the pair is
\* its square
StatsOut(a) ==
    [m |-> <<SumVals(a, Len(a)), Len(a)>>,
     m2 |-> <<SumSquares(a, Len(a)), Len(a)>>,
     s |-> <<Len(a) * SumSquares(a, Len(a)) - SumVals(a, Len(a)) * SumVals(a, Len(a)),
             Len(a) * Len(a)>>]

\* field.py:339-342  the passes sweep(num_sweeps) makes
Passes(num_sweeps) == IF num_sweeps = 1 THEN 1 ELSE IF num_sweeps > 0 THEN num_sweeps ELSE 0

\* field.py:493, 503-509  the loop goes to the next index, or ends and
\* hysteresis returns energy[::inc], std[::inc], betas[::inc]
HystNext(r, a) ==
    IF r.i + 1 < Len(a.betas)
        THEN [r EXCEPT !.i = @ + 1, !.stage = "index", !.k = 0, !.pos = 0]
    ELSE [r EXCEPT !.walk = "finished", !.stage = "over",
                   !.ret = [energy |-> Slice(r.energy, a.inc),
                            std |-> Slice(r.std, a.inc),
                            betas |-> Slice(a.betas, a.inc)]]

\* field.py:500-502, 408-423  stats has made its sweeps on storage lk and
\* returns: energy[i], energy2[i], std[i] are stored, and energy[i] again
\* from field.energy() when avg is false
HystStore(r, a, lat, G, lk) ==
    LET out == StatsOut(r.samples)
        e == EnergyNum(lat, G, lk)
    IN  IF ~a.avg /\ e = 0 - 1
            THEN [r EXCEPT !.walk = "raised", !.err = "IndexError"]
        ELSE The({HystNext(r2, a) :
                    r2 \in {[r EXCEPT
                               !.energy = Store(@, r.i, IF a.avg THEN out.m ELSE <<e, 1>>),
                               !.energy2 = Store(@, r.i, out.m2),
                               !.std = Store(@, r.i, out.s),
                               !.calls = Append(@, [i |-> r.i, eq |-> r.eq, out |-> out])]}})

\* field.py:403-404  field.stats(nstat, relax=relax, ret='m2s') is entered
HystStats(r, a, lat, G, lk) ==
    The({IF a.nstat * a.relax >= 1 THEN r2 ELSE HystStore(r2, a, lat, G, lk) :
           r2 \in {[r EXCEPT !.stage = "stats", !.k = 0, !.pos = 1,
                             !.samples = Zeros(a.nstat)]}})

\* a mutant of HystAfterEq: stats at every index
HystAfterEq_every_index(r, a, lat, G, lk) == HystStats(r, a, lat, G, lk)

\* field.py:498-499  field.sweep(num_sweeps=neq) has returned: the indexes
\* with i mod inc # 0 are passed over, at the others stats is called
HystAfterEq(r, a, lat, G, lk) ==
    IF r.i % a.inc # 0 THEN HystNext(r, a) ELSE HystStats(r, a, lat, G, lk)

\* the end of a sweep of hysteresis on storage lk: of an equilibration
\* sweep (field.py:341-342), or of a sweep of stats with its sample
\* (field.py:405-407)
HystSweepEnd(r, a, lat, G, lk) ==
    IF r.stage = "eq"
        THEN IF r.k + 1 < Passes(a.neq)
                 THEN [r EXCEPT !.k = @ + 1, !.eq = @ + 1, !.pos = 1]
             ELSE HystAfterEq([r EXCEPT !.k = @ + 1, !.eq = @ + 1], a, lat, G, lk)
    ELSE LET k1 == r.k + 1
             due == k1 % a.relax = 0
             idx == (k1 \div a.relax) - 1
             e == EnergyNum(lat, G, lk)
         IN  IF due /\ (e = 0 - 1 \/ ~InBounds(idx, a.nstat))
                 THEN [r EXCEPT !.walk = "raised", !.err = "IndexError"]
             ELSE The({IF k1 < a.nstat * a.relax THEN r2
                       ELSE HystStore(r2, a, lat, G, lk) :
                         r2 \in {[r EXCEPT !.k = k1, !.pos = 1,
                                           !.samples = IF due THEN Store(@, idx, e)
                                                       ELSE @]}})

\* field.py:484-491  hysteresis is entered: betas is expanded and energy,
\* energy2, std = np.zeros(betas.shape)
HystCall(given, neq, nstat, relax, inc, avg) ==
    /\ Callable /\ Called
    /\ pc' = 0 - 3
    /\ arg' = [proc |-> "hysteresis", given |-> given, betas |-> HystBetas(given),
               neq |-> neq, nstat |-> nstat, relax |-> relax, inc |-> inc,
               avg |-> avg]
    /\ res' = HystNext([i |-> 0 - 1, stage |-> "index", k |-> 0, eq |-> 0, pos |-> 0,
                        samples |-> <<>>,
                        energy |-> Zeros(Len(arg'.betas)),
                        energy2 |-> Zeros(Len(arg'.betas)),
                        std |-> Zeros(Len(arg'.betas)),
                        set |-> <<>>, calls |-> <<>>, ret |-> <<>>,
                        walk |-> "running", err |-> "none"], arg')
    /\ last' = Did("hysteresis_call", NoLink, <<>>, FALSE, "none", 0, links)
    /\ UNCHANGED <<shape, lattice, group, B, links, drawn>>

\* field.py:497-498  index i of the loop: field.B = betas[i], then
\* field.sweep(num_sweeps=neq) is entered
HystIndex ==
    /\ InDriver /\ arg.proc = "hysteresis" /\ res.walk = "running"
    /\ res.stage = "index"
    /\ B' = arg.betas[res.i + 1]
    /\ \E r \in {[res EXCEPT !.set = Append(@, B'), !.eq = 0]} :
           res' = IF Passes(arg.neq) >= 1
                      THEN [r EXCEPT !.stage = "eq", !.k = 0, !.pos = 1]
                  ELSE HystAfterEq(r, arg, lattice, group, links)
    /\ last' = Did("hysteresis_index", NoLink, <<>>, FALSE, "none", 0, links)
    /\ UNCHANGED <<shape, lattice, group, links, pc, calls, drawn, arg>>

\* one update of a sweep made by hysteresis, directly or through stats
HystUpdate(new_g, rn) ==
    /\ InDriver /\ arg.proc = "hysteresis" /\ res.walk = "running"
    /\ res.stage \in {"eq", "stats"}
    /\ \E u \in {update(lattice, group, B, links, lattice.order[res.pos], new_g, rn)} :
           /\ links' = u.links
           /\ last' = Did("hysteresis_update", lattice.order[res.pos], <<>>,
                          FALSE, u.err, 0, u.links)
           /\ res' = IF u.err # "none"
                         THEN [res EXCEPT !.walk = "raised", !.err = u.err]
                     ELSE IF res.pos < lattice.num_links
                         THEN [res EXCEPT !.pos = @ + 1]
                     ELSE HystSweepEnd(res, arg, lattice, group, u.links)
    /\ UNCHANGED <<shape, lattice, group, B, pc, calls, drawn, arg>>

\* hysteresis is left: by an exception or by its return
HystReturn ==
    /\ InDriver /\ arg.proc = "hysteresis" /\ res.walk # "running"
    /\ pc' = 0
    /\ last' = Did("hysteresis", NoLink, <<>>, FALSE, res.err, 0, links)
    /\ UNCHANGED <<shape, lattice, group, B, links, calls, drawn, arg, res>>

InitHyst == FieldInit(MaxLinks, MaxConfigs, {Fin(0)}, "one")

NextHyst ==
    \/ \E given \in HystGiven, neq \in 0..MaxEq, nstat \in 1..MaxHystStat,
          relax \in 1..MaxHystRelax, inc \in 1..MaxInc, avg \in BOOLEAN :
           HystCall(given, neq, nstat, relax, inc, avg)
    \/ HystIndex
    \/ \E new_g \in 0..(group.N - 1), rn \in Draws : HystUpdate(new_g, rn)
    \/ HystReturn

SpecHyst == InitHyst /\ [][NextHyst]_vars

InHyst == InDriver /\ arg.proc = "hysteresis"

\* s runs upward from a in steps of step and stays below b
RunsUp(s, a, b, step) ==
    /\ \A k \in 1..Len(s) : s[k] = Fin(a + (k - 1) * step) /\ s[k].n < b
    /\ a + Len(s) * step >= b \/ (Len(s) = 0 /\ a >= b)

\* s runs downward from b in steps of step and stays above a
RunsDown(s, a, b, step) ==
    /\ \A k \in 1..Len(s) : s[k] = Fin(b - (k - 1) * step) /\ s[k].n > a
    /\ b - Len(s) * step <= a \/ (Len(s) = 0 /\ b <= a)

\* the betas hysteresis runs over are the given ones: the array, or for a
\* tuple upward from betas[0], then downward from betas[1]
BetasAsGiven ==
    IF arg.given.kind = "array" THEN arg.betas = arg.given.b
    ELSE \E n \in 0..Len(arg.betas) :
            /\ RunsUp(SubSeq(arg.betas, 1, n),
                      arg.given.b[1], arg.given.b[2], arg.given.b[3])
            /\ RunsDown(SubSeq(arg.betas, n + 1, Len(arg.betas)),
                        arg.given.b[1], arg.given.b[2], arg.given.b[3])

\* the indexes i of 0..n-1 with i mod inc = 0, in order
StatsIndexes(n, inc) == [k \in 1..((n + inc - 1) \div inc) |-> (k - 1) * inc]

InitializeCall(init) ==
    /\ Callable /\ Called
    /\ arg' = [init |-> init]
    /\ IF InitializeRaises(group, init)
           THEN /\ links' = links
                /\ res' = [err |-> "TypeError", pre |-> links]
           ELSE /\ links' \in InitializeResults(shape, lattice, group, links, init)
                /\ res' = [err |-> "none", pre |-> links]
    /\ last' = Did("initialize", NoLink, <<>>, FALSE, res'.err, 0, links')
    /\ UNCHANGED <<shape, lattice, group, B, pc, drawn>>

InitInitialize == FieldInit(MaxLinks, MaxConfigs, {Fin(0)}, "one")

NextInitialize == \E init \in Inits(group) : InitializeCall(init)

SpecInitialize == InitInitialize /\ [][NextInitialize]_vars

\* initialize was called with an integer or a 'half<v>' string that names
\* an element outside 0..N-1
OutsideInit ==
    /\ arg # Pending
    /\ arg.init.kind \in {"int", "halfv"}
    /\ arg.init.v \notin 0..(group.N - 1)

C18_OnlyLargeIntegerRejected ==
    OutsideInit =>
        IF arg.init.kind = "int" /\ arg.init.v >= group.N
            THEN res.err = "TypeError" /\ links = res.pre
        ELSE /\ res.err = "none"
             /\ \E l \in lattice.link_set : links[l] = arg.init.v

(***************************************************************************)
(* Two runs of sweep(num_sweeps = k) side by side: field.py:310-342.  The  *)
(* two fields start from the same storage and the same B, and numpy's      *)
(* generator is seeded alike for both, so that each run reads the same     *)
(* stream of draws.  The stream is produced one update at a time: its      *)
(* element is the candidate of np.random.randint and the value             *)
(* np.random.random() yields if metropolis comes to ask for it.  links is  *)
(* the storage of the first run; res holds the storage of the second, the  *)
(* walk of each and the previous element of the stream.                    *)
(***************************************************************************)
\* a mutant of Draw: the second run reads on in the generator of the first
\* instead of starting from the seed, and is one element behind
Draw_unseeded(prev, cur, run) == IF run = 2 THEN prev ELSE cur

\* field.py:313, utils.py:22  the draws an update of run `run` gets from
\* its generator, prev and cur being the previous and the current element
\* of the seeded stream
Draw(prev, cur, run) == cur

\* field.py:334-342  one update of a run of sweep(num_sweeps) on storage lk
\* with the draws d; w is the walk of the run
TwinStep(w, k, lat, G, beta, lk, d) ==
    The({[links |-> u.links,
          walk |-> IF u.err # "none"
                       THEN [w EXCEPT !.state = "raised", !.err = u.err]
                   ELSE IF w.pos < lat.num_links THEN [w EXCEPT !.pos = @ + 1]
                   ELSE IF w.pass < Passes(k) THEN [w EXCEPT !.pos = 1, !.pass = @ + 1]
                   ELSE [w EXCEPT !.state = "finished"]] :
            u \in {update(lat, G, beta, lk, lat.order[w.pos], d[1], d[2])}})

\* both runs are started: the second field is a copy of the first
TwinCall(k) ==
    /\ Callable /\ Called
    /\ pc' = 0 - 3
    /\ arg' = [proc |-> "two_sweeps", num_sweeps |-> k]
    /\ \E w \in {[pass |-> 1, pos |-> 1, err |-> "none",
                   state |-> IF Passes(k) >= 1 THEN "running" ELSE "finished"]} :
           res' = [start |-> links, prev |-> <<0, 0>>, one |-> w, two |-> w,
                   links2 |-> links]
    /\ last' = Did("two_sweeps_call", NoLink, <<>>, FALSE, "none", 0, links)
    /\ UNCHANGED <<shape, lattice, group, B, links, drawn>>

\* the next element of the stream is read by each run that is still
\* walking, for its next update
TwinUpdate(new_g, rn) ==
    /\ InDriver /\ arg.proc = "two_sweeps"
    /\ res.one.state = "running" \/ res.two.state = "running"
    /\ \E d1 \in {Draw(res.prev, <<new_g, rn>>, 1)},
          d2 \in {Draw(res.prev, <<new_g, rn>>, 2)} :
        \E s1 \in {IF res.one.state = "running"
                       THEN TwinStep(res.one, arg.num_sweeps, lattice, group, B, links, d1)
                    ELSE [links |-> links, walk |-> res.one]},
           s2 \in {IF res.two.state = "running"
                       THEN TwinStep(res.two, arg.num_sweeps, lattice, group, B,
                                     res.links2, d2)
                    ELSE [links |-> res.links2, walk |-> res.two]} :
           /\ links' = s1.links
           /\ res' = [res EXCEPT !.prev = <<new_g, rn>>, !.one = s1.walk,
                                 !.two = s2.walk, !.links2 = s2.links]
           /\ last' = Did("two_sweeps_update", NoLink, <<>>, FALSE, s1.walk.err, 0,
                          s1.links)
    /\ UNCHANGED <<shape, lattice, group, B, pc, calls, drawn, arg>>

\* both runs are over
TwinReturn ==
    /\ InDriver /\ arg.proc = "two_sweeps"
    /\ res.one.state # "running" /\ res.two.state # "running"
    /\ pc' = 0
    /\ last' = Did("two_sweeps", NoLink, <<>>, FALSE, res.one.err, 0, links)
    /\ UNCHANGED <<shape, lattice, group, B, links, calls, drawn, arg, res>>

InitTwin == FieldInit(MaxLinks, MaxConfigs, FieldBetas, "one")

NextTwin ==
    \/ \E k \in 0..MaxSweeps : TwinCall(k)
    \/ \E new_g \in 0..(group.N - 1), rn \in Draws : TwinUpdate(new_g, rn)
    \/ TwinReturn

SpecTwin == InitTwin /\ [][NextTwin]_vars

TwinOver ==
    /\ pc = 0 /\ arg # Pending /\ arg.proc = "two_sweeps"

RandUpdateCall(n) ==
    /\ Callable /\ Called
    /\ arg' = [proc |-> "rand_update", n |-> n]
    /\ res' = [err |-> IF n >= 1 THEN "NameError" ELSE "none", attempts |-> 0,
               pre |-> links]
    /\ links' = links
    /\ last' = Did("rand_update", NoLink, <<>>, FALSE, res'.err, 0, links)
    /\ UNCHANGED <<shape, lattice, group, B, pc, drawn>>

InitRand == FieldInit(MaxLinks, MaxConfigs, FieldBetas, "one")

NextRand == \E n \in 0..MaxRandUpdates : RandUpdateCall(n)

SpecRand == InitRand /\ [][NextRand]_vars

RandUpdateOver == arg # Pending /\ arg.proc = "rand_update"

C20_RandUpdateRaises ==
    (RandUpdateOver /\ arg.n >= 1) =>
        (res.err = "NameError" /\ res.attempts = 0 /\ links = res.pre)

(***************************************************************************)
(* watch_sweep(field, stop): field.py:549-562.  arg holds stop; res holds  *)
(* j, the array energy, the value returned and, as history, the links      *)
(* updated so far and the energy after each update.                        *)
(***************************************************************************)
\* field.py:551-553  watch_sweep is entered: energy = np.zeros(num_links +
\* 1), energy[0] = field.energy(), j = 1
WatchCall(stop) ==
    /\ Callable /\ Called
    /\ pc' = 0 - 3
    /\ arg' = [proc |-> "watch_sweep", stop |-> stop]
    /\ \E e \in {EnergyNum(lattice, group, links)} :
           res' = IF e = 0 - 1
                      THEN [j |-> 1, energy |-> Zeros(lattice.num_links + 1),
                            ret |-> <<>>, updated |-> <<>>, after |-> <<>>,
                            first |-> e, walk |-> "raised", err |-> "IndexError"]
                  ELSE [j |-> 1, energy |-> Store(Zeros(lattice.num_links + 1), 0, e),
                        ret |-> <<>>, updated |-> <<>>, after |-> <<>>,
                        first |-> e, walk |-> "running", err |-> "none"]
    /\ last' = Did("watch_sweep_call", NoLink, <<>>, FALSE, "none", 0, links)
    /\ UNCHANGED <<shape, lattice, group, B, links, drawn>>

\* field.py:558-562  after field.update(l) has left the storage lk:
\* energy[j] = field.energy(), j += 1, the break when j equals
\* np.mod(stop, len(energy)), and the return of energy[0:j] after the break
\* or after the last link
WatchAfter(r, a, lat, G, lk, l) ==
    LET e == EnergyNum(lat, G, lk)
        j1 == r.j + 1
    IN  IF e = 0 - 1 \/ ~InBounds(r.j, Len(r.energy))
            THEN [r EXCEPT !.updated = Append(@, l), !.walk = "raised",
                           !.err = "IndexError"]
        ELSE The({IF j1 = a.stop % Len(r.energy) \/ j1 > lat.num_links
                      THEN [r2 EXCEPT !.walk = "finished",
                                      !.ret = SubSeq(r2.energy, 1, j1)]
                  ELSE r2 :
                    r2 \in {[r EXCEPT !.updated = Append(@, l),
                                      !.after = Append(@, e),
                                      !.energy = Store(@, r.j, e), !.j = j1]}})

\* field.py:555-558  one pass of the loop over multirange(links_shape):
\* field.update(i) on the next link, then the measurement
WatchUpdate(new_g, rn) ==
    /\ InDriver /\ arg.proc = "watch_sweep" /\ res.walk = "running"
    /\ \E u \in {update(lattice, group, B, links, lattice.order[res.j], new_g, rn)} :
           /\ links' = u.links
           /\ last' = Did("watch_sweep_update", lattice.order[res.j], <<>>,
                          FALSE, u.err, 0, u.links)
           /\ res' = IF u.err # "none"
                         THEN [res EXCEPT !.walk = "raised", !.err = u.err]
                     ELSE WatchAfter(res, arg, lattice, group, u.links,
                                     lattice.order[res.j])
    /\ UNCHANGED <<shape, lattice, group, B, pc, calls, drawn, arg>>

\* watch_sweep is left: by an exception or by its return
WatchReturn ==
    /\ InDriver /\ arg.proc = "watch_sweep" /\ res.walk # "running"
    /\ pc' = 0
    /\ last' = Did("watch_sweep", NoLink, <<>>, FALSE, res.err, 0, links)
    /\ UNCHANGED <<shape, lattice, group, B, links, calls, drawn, arg, res>>

InitWatch == FieldInit(MaxLinks, MaxConfigs, FieldBetas, "one")

NextWatch ==
    \/ \E stop \in (0 - 1)..MaxStop : WatchCall(stop)
    \/ \E new_g \in 0..(group.N - 1), rn \in Draws : WatchUpdate(new_g, rn)
    \/ WatchReturn

SpecWatch == InitWatch /\ [][NextWatch]_vars

\* watch_sweep with the default stop is about to return or to propagate an
\* exception
WatchOverDefault ==
    /\ InDriver /\ arg.proc = "watch_sweep" /\ res.walk # "running"
    /\ arg.stop = 0 - 1

\* the first n links were updated, each once and in enumeration order, and
\* n + 1 energies are returned: the initial one, then the one measured
\* after each update
WatchedLinks(n) ==
    /\ res.walk = "finished"
    /\ res.updated = SubSeq(lattice.order, 1, n)
    /\ Len(res.ret) = n + 1
    /\ res.ret[1].val = res.first
    /\ \A k \in 1..n : res.ret[k + 1].val = res.after[k]
    /\ \A k \in 1..(n + 1) : res.ret[k].writes = 1

C22_WatchSweepShort ==
    (WatchOverDefault /\ res.walk = "finished") => WatchedLinks(lattice.num_links - 1)

\* with stop = 0 or 1 the break never comes and the sweep is full
C22_WatchSweepUnbroken ==
    (InDriver /\ arg.proc = "watch_sweep" /\ res.walk = "finished"
     /\ arg.stop \in {0, 1}) => WatchedLinks(lattice.num_links)

\* a walk with the default stop over a 4-link lattice returned
C22_Reached == WatchOverDefault /\ res.walk = "finished" /\ lattice.num_links = 4

(***************************************************************************)
(* status(): field.py:425-444.  The statements of the loop are laid out in *)
(* the order the code runs them and executed up to the first exception;    *)
(* read is the history of the link indices handed to lattice.links.        *)
(***************************************************************************)
\* field.py:432-436  the statements for site i from direction j on: the
\* link i + (j,), its plaquettes (i, j, k) with k > j, and after the last j
\* the link i + (num_dims,)
RECURSIVE StatusSite(_, _, _)
StatusSite(D, i, j) ==
    IF j > D - 2 THEN <<[kind |-> "link", at |-> Append(i, D), k |-> 0]>>
    ELSE <<[kind |-> "link", at |-> Append(i, j), k |-> 0]>>
         \o [n \in 1..(D - 1 - j) |-> [kind |-> "plaq", at |-> Append(i, j), k |-> j + n]]
         \o StatusSite(D, i, j + 1)

\* field.py:431  the loop over multirange(self.shape), from site number n
RECURSIVE StatusSteps(_, _)
StatusSteps(sh, n) ==
    IF n > num_sites(sh) THEN <<>>
    ELSE StatusSite(NumDims(sh), SiteOrder(sh)[n], 0) \o StatusSteps(sh, n + 1)

\* gl[v] += 1 or gp[v] += 1 on a histogram of N bins
Count(hist, v) == [hist EXCEPT ![At(v, Len(hist))] = @ + 1]

\* field.py:433-436  one statement of the loop on the state st of the call
StatusStep(sh, G, lk, s, st) ==
    LET D == NumDims(sh)
        i == SubSeq(s.at, 1, D)
    IN  IF s.kind = "link"
            THEN IF ~InBounds(s.at[D + 1], D)
                     THEN [st EXCEPT !.err = "IndexError", !.read = Append(@, s.at)]
                 ELSE IF ~InBounds(lk[s.at], G.N)
                     THEN [st EXCEPT !.err = "IndexError", !.read = Append(@, s.at)]
                 ELSE [st EXCEPT !.gl = Count(@, lk[s.at] + 1),
                                 !.read = Append(@, s.at)]
        ELSE The({IF p.err # "none" THEN [st EXCEPT !.err = p.err]
                  ELSE [st EXCEPT !.gp = Count(@, 1 + Prod(G, lk[p.ls[1]], lk[p.ls[2]],
                                                          lk[p.ls[3]], lk[p.ls[4]]))] :
                    p \in {SitePlaquette(sh, i, s.at[D + 1], s.k)}})

RECURSIVE StatusRun(_, _, _, _, _, _)
StatusRun(sh, G, lk, steps, n, st) ==
    IF n > Len(steps) \/ st.err # "none" THEN st
    ELSE StatusRun(sh, G, lk, steps, n + 1, StatusStep(sh, G, lk, steps[n], st))

\* field.py:425-444  status(): gl and gp start as np.zeros(group.size); the
\* loop; then out.append(ge), a name nothing defines
status(sh, G, lk) ==
    The({IF st.err # "none" THEN st ELSE [st EXCEPT !.err = "NameError"] :
            st \in {StatusRun(sh, G, lk, StatusSteps(sh, 1), 1,
                              [err |-> "none", gl |-> [v \in 1..G.N |-> 0],
                               gp |-> [v \in 1..G.N |-> 0], read |-> <<>>])}})

StatusCall ==
    /\ Callable /\ Called
    /\ arg' = [proc |-> "status"]
    /\ res' = status(shape, group, links)
    /\ last' = Did("status", NoLink, <<>>, FALSE, res'.err, 0, links)
    /\ UNCHANGED <<shape, lattice, group, B, links, pc, drawn>>

InitStatus == FieldInit(MaxCallLinks, MaxCallConfigs, {Fin(0)}, "one")

NextStatus == StatusCall

SpecStatus == InitStatus /\ [][NextStatus]_vars

StatusOver == arg # Pending /\ arg.proc = "status"

RECURSIVE SumHist(_, _)
SumHist(hist, n) == IF n = 0 THEN 0 ELSE hist[n] + SumHist(hist, n - 1)

C23_StatusRaises ==
    StatusOver =>
        /\ res.err \in {"NameError", "IndexError"}
        /\ res.read = <<lattice.order[1]>>
        /\ SumHist(res.gl, group.N) <= 1
        /\ SumHist(res.gp, group.N) = 0
        /\ res.err = "IndexError" <=> links[lattice.order[1]] = group.N

(***************************************************************************)
(* Reachability by single updates: the field takes update calls only, at   *)
(* B = 0, ln 2 or BigBeta * ln 2.                                          *)
(***************************************************************************)
InitErgodic ==
    FieldInit(MaxLinks, MaxConfigs, FieldBetas \cup {Fin(BigBeta)}, "any")

NextErgodic ==
    \E i \in lattice.link_set, new_g \in 0..(group.N - 1), rn \in Draws :
        Update(i, new_g, rn)

SpecErgodic == InitErgodic /\ [][NextErgodic]_vars

\* the storage is a link configuration: a group element on every link
LinkConfiguration == \A l \in lattice.link_set : links[l] \in 0..(group.N - 1)

\* every group element can be proposed for every link, and for every
\* proposal some draw makes update accept it and store it
EveryProposalAcceptable ==
    \A i \in lattice.link_set, new_g \in 0..(group.N - 1) :
        \E rn \in Draws :
            \E u \in {update(lattice, group, B, links, i, new_g, rn)} :
                u.err = "none" /\ u.acc /\ u.links = [links EXCEPT ![i] = new_g]

C24_NoWayUpAtBigBeta ==
    (last.op = "update" /\ last.err = "none" /\ B = Fin(BigBeta) /\ LinkConfiguration)
        => EnergyNum(lattice, group, links) <= EnergyNum(lattice, group, last.pre)

====
